---------------------------- MODULE Spec2Model ----------------------------
(***************************************************************************)
(* State-machine model of src/src/imgui_nx/imgui_nx.cpp: the Switch        *)
(* platform backend of Dear ImGui (init / newFrame / exit, the applet      *)
(* hook and the touch reader).                                             *)
(*                                                                         *)
(* Pixels are integers (the float values the code uses are all integral),  *)
(* scale factors are exact reduced fractions <<num, den>>, and time is in  *)
(* integer ticks of the steady clock.                                      *)
(***************************************************************************)
EXTENDS Integers, Sequences, FiniteSets, TLC

VARIABLES
    opMode,      \* the console's operation mode, as appletGetOperationMode() reports it
    clock,       \* std::chrono::steady_clock, in ticks
    phase,       \* which entry points have been called: "pre", "running", "exited"
    hooked,      \* s_appletHookCookie is registered with the applet service
    s_width,     \* float s_width
    s_height,    \* float s_height
    s_mousePos,  \* ImVec2 s_mousePos
    timer,       \* newFrame's function-local statics: [init, start, prev]
    style,       \* ImGuiStyle: [WindowRounding, scale]; scale = product of ScaleAllSizes factors
    io,          \* the fields of ImGuiIO this file touches
    atlas,       \* io.Fonts: [fonts, noPow2, built]
    ret,         \* what init() returned ("none" before it ran)
    pl,          \* results of the two plGetSharedFontByType calls seen by init()
    hid,         \* what the latest newFrame() sampled: [count, first]
    lastOp,      \* the operation that produced the current state
    queried,     \* whether that operation called appletGetOperationMode()
    sumDelta,    \* sum of every io.DeltaTime written so far
    ref          \* inputs, pre-state and outputs of one remembered newFrame() call

vars == <<opMode, clock, phase, hooked, s_width, s_height, s_mousePos, timer,
          style, io, atlas, ret, pl, hid, lastOp, queried, sumDelta, ref>>

-----------------------------------------------------------------------------
(* Bounds of the model *)

MaxTouches == 2      \* most simultaneous touches hidTouchCount() reports
MaxClock == 3        \* the clock stops advancing here
MaxDrift == 2        \* ScaleAllSizes products are followed up to 10 * 26^MaxDrift

(* Program constants *)

HandheldWidth == 1280
HandheldHeight == 720
DockedWidth == 1920
DockedHeight == 1080

Modes == {"Handheld", "Docked"}
HookTypes == {"OnOperationMode", "OnFocusState", "OnPerformanceMode"}

\* 1.9f, 2.6f, 0.9f, 1.6f as exact fractions
HandheldStyleScale == <<19, 10>>
DockedStyleScale == <<13, 5>>
HandheldFontScale == <<9, 10>>
DockedFontScale == <<8, 5>>

\* Touch points: inside both resolutions, outside 720p only, outside both.
TouchPoints == {<<640, 360>>, <<1500, 900>>, <<2000, 1200>>}
TouchStates == UNION {[1..n -> TouchPoints] : n \in 0..MaxTouches}

-----------------------------------------------------------------------------
(* Exact arithmetic on fractions *)

RECURSIVE Gcd(_, _)
Gcd(a, b) == IF b = 0 THEN a ELSE Gcd(b, a % b)

RECURSIVE Pow(_, _)
Pow(b, n) == IF n = 0 THEN 1 ELSE b * Pow(b, n - 1)

Reduce(n, d) == LET g == Gcd(n, d) IN <<n \div g, d \div g>>
RMul(p, q) == Reduce(p[1] * q[1], p[2] * q[2])
RDiv(p, q) == Reduce(p[1] * q[2], p[2] * q[1])

ScaleCap == 10 * Pow(26, MaxDrift)
WithinCap(r) == r[1] <= ScaleCap /\ r[2] <= ScaleCap

\* ImGuiStyle::ScaleAllSizes(f): every size of the style is multiplied by f
ScaleAllSizes(st, f) == [st EXCEPT !.scale = RMul(@, f)]


-----------------------------------------------------------------------------
(* The display settings the hook and init() rewrite together *)

Display(w, h, st, fs, q) ==
    [w |-> w, h |-> h, style |-> st, font |-> fs, queried |-> q]

\* Mutant: the docked branch forgets to resize.
handleAppletHook_NoResize(type, mode, cur) ==
    IF type # "OnOperationMode"
    THEN [cur EXCEPT !.queried = FALSE]
    ELSE IF mode = "Docked"
         THEN Display(cur.w, cur.h,
                      ScaleAllSizes(cur.style, RDiv(DockedStyleScale, HandheldStyleScale)),
                      DockedFontScale, TRUE)
         ELSE Display(HandheldWidth, HandheldHeight,
                      ScaleAllSizes(cur.style, RDiv(HandheldStyleScale, DockedStyleScale)),
                      HandheldFontScale, TRUE)

\* Mutant: the notification type is not checked.
handleAppletHook_AnyType(type, mode, cur) ==
    IF mode = "Docked"
    THEN Display(DockedWidth, DockedHeight,
                 ScaleAllSizes(cur.style, RDiv(DockedStyleScale, HandheldStyleScale)),
                 DockedFontScale, TRUE)
    ELSE Display(HandheldWidth, HandheldHeight,
                 ScaleAllSizes(cur.style, RDiv(HandheldStyleScale, DockedStyleScale)),
                 HandheldFontScale, TRUE)

\* handleAppletHook(type, param); `mode` is what appletGetOperationMode()
\* returns when the switch statement asks for it.
handleAppletHook(type, mode, cur) ==
    IF type # "OnOperationMode"
    THEN [cur EXCEPT !.queried = FALSE]
    ELSE IF mode = "Docked"
         THEN Display(DockedWidth, DockedHeight,
                      ScaleAllSizes(cur.style, RDiv(DockedStyleScale, HandheldStyleScale)),
                      DockedFontScale, TRUE)
         ELSE \* default: and case AppletOperationMode_Handheld
              Display(HandheldWidth, HandheldHeight,
                      ScaleAllSizes(cur.style, RDiv(HandheldStyleScale, DockedStyleScale)),
                      HandheldFontScale, TRUE)

\* init(): the mode-dependent block
initDisplay(mode, st) ==
    IF mode = "Handheld"
    THEN Display(HandheldWidth, HandheldHeight,
                 ScaleAllSizes(st, HandheldStyleScale), HandheldFontScale, TRUE)
    ELSE Display(DockedWidth, DockedHeight,
                 ScaleAllSizes(st, DockedStyleScale), DockedFontScale, TRUE)

\* Mutant: || in place of &&, the standard font is added on its own.
loadFonts_Either(stdOk, extOk, at) ==
    IF stdOk \/ extOk
    THEN [fonts |-> <<"standard", "extended">>, noPow2 |-> TRUE, built |-> TRUE]
    ELSE at

\* init(): the shared-font block; the atlas is touched only if both lookups succeed
loadFonts(stdOk, extOk, at) ==
    IF stdOk /\ extOk
    THEN [fonts |-> <<"standard", "extended">>, noPow2 |-> TRUE, built |-> TRUE]
    ELSE at

\* appletHook(&s_appletHookCookie, handleAppletHook, nullptr)
appletHook(h) == TRUE

\* Mutant: exit() leaves the cookie registered.
appletUnhook_Kept(h) == h

\* appletUnhook(&s_appletHookCookie)
appletUnhook(h) == FALSE

\* Mutant: the last touch is read instead of touch 0.
updateTouch_LastTouch(touches, mp, down) ==
    IF Len(touches) < 1
    THEN [pos |-> mp, down |-> down]
    ELSE [pos |-> touches[Len(touches)], down |-> TRUE]

\* Mutant: the button is released when nothing touches the screen.
updateTouch_Release(touches, mp, down) ==
    IF Len(touches) < 1
    THEN [pos |-> mp, down |-> FALSE]
    ELSE [pos |-> touches[1], down |-> TRUE]

\* Mutant: the position comes from the sample of the previous frame.
updateTouch_Stale(touches, mp, down) ==
    IF Len(touches) < 1
    THEN [pos |-> mp, down |-> down]
    ELSE [pos |-> IF hid.count >= 1 THEN hid.first ELSE touches[1], down |-> TRUE]

\* updateTouch(io_): the new s_mousePos and io_.MouseDown[0]
updateTouch(touches, mp, down) ==
    IF Len(touches) < 1
    THEN [pos |-> mp, down |-> down]
    ELSE [pos |-> touches[1], down |-> TRUE]

\* std::clamp(v, lo, hi)
clamp(v, lo, hi) == IF v < lo THEN lo ELSE IF hi < v THEN hi ELSE v

\* Mutant: only x is clamped.
clampMouse_XOnly(mp, w, h) == <<clamp(mp[1], 0, w), mp[2]>>

\* newFrame(): clamp mouse to screen
clampMouse(mp, w, h) == <<clamp(mp[1], 0, w), clamp(mp[2], 0, h)>>

\* Mutant: `prev = now` is missing.
timeStep_PrevKept(t, first, now) ==
    LET start == IF t.init THEN t.start ELSE first
        prev  == IF t.init THEN t.prev ELSE start
    IN  [delta |-> now - prev,
         timer |-> [init |-> TRUE, start |-> start, prev |-> prev]]

\* newFrame(): the time step. `first` is the clock reading that initialises the
\* static `start` on the first call, `now` the reading taken on every call.
timeStep(t, first, now) ==
    LET start == IF t.init THEN t.start ELSE first
        prev  == IF t.init THEN t.prev ELSE start
    IN  [delta |-> now - prev,
         timer |-> [init |-> TRUE, start |-> start, prev |-> now]]

-----------------------------------------------------------------------------
(* Initial state: the namespace-scope statics and a freshly created ImGui context *)

\* What hidTouchCount() and hidTouchRead(&pos, 0) report of a touch state
Sampled(touches) ==
    [count |-> Len(touches),
     first |-> IF Len(touches) >= 1 THEN touches[1] ELSE <<0, 0>>]

NoRef == [set |-> FALSE, mode |-> "Handheld", touches |-> Sampled(<<>>),
          w |-> 0, h |-> 0, oldPos |-> <<0, 0>>, oldDown |-> FALSE,
          size |-> <<0, 0>>, pos |-> <<0, 0>>, down |-> FALSE]

Init ==
    /\ opMode \in Modes
    /\ clock = 0
    /\ phase = "pre"
    /\ hooked = FALSE
    /\ s_width = HandheldWidth
    /\ s_height = HandheldHeight
    /\ s_mousePos = <<0, 0>>
    /\ timer = [init |-> FALSE, start |-> 0, prev |-> 0]
    /\ style = [WindowRounding |-> 1, scale |-> <<1, 1>>]
    /\ io = [DisplaySize |-> <<-1, -1>>, DisplayFramebufferScale |-> <<1, 1>>,
             DeltaTime |-> 0, MousePos |-> <<-1, -1>>, MouseDown0 |-> FALSE,
             FontGlobalScale |-> <<1, 1>>, IniFilename |-> "imgui.ini",
             IsTouchScreen |-> FALSE, MouseDrawCursor |-> FALSE]
    /\ atlas = [fonts |-> <<>>, noPow2 |-> FALSE, built |-> FALSE]
    /\ ret = "none"
    /\ pl = [standard |-> FALSE, extended |-> FALSE]
    /\ hid = Sampled(<<>>)
    /\ lastOp = "none"
    /\ queried = FALSE
    /\ sumDelta = 0
    /\ ref = NoRef

-----------------------------------------------------------------------------
(* The entry points *)

\* bool imgui::nx::init()
init(stdOk, extOk) ==
    /\ phase = "pre"
    /\ LET d == initDisplay(opMode, [style EXCEPT !.WindowRounding = 0])
       IN  /\ s_width' = d.w
           /\ s_height' = d.h
           /\ style' = d.style
           /\ io' = [io EXCEPT !.FontGlobalScale = d.font,
                               !.IniFilename = "nullptr",
                               !.IsTouchScreen = TRUE,
                               !.MouseDrawCursor = FALSE]
           /\ queried' = d.queried
    /\ atlas' = loadFonts(stdOk, extOk, atlas)
    /\ pl' = [standard |-> stdOk, extended |-> extOk]
    /\ hooked' = appletHook(hooked)
    /\ ret' = "true"
    /\ phase' = "running"
    /\ lastOp' = "init"
    /\ UNCHANGED <<opMode, clock, s_mousePos, timer, hid, sumDelta, ref>>

\* void imgui::nx::newFrame(), everything but the observer `ref`; `touches` is
\* the HID touch state during the call, `d` the ticks that pass between the two
\* clock readings of the first call.
frame(touches, d) ==
    /\ clock + d <= MaxClock
    /\ timer.init => d = 0
    /\ LET ts == timeStep(timer, clock, clock + d)
           ut == updateTouch(touches, s_mousePos, io.MouseDown0)
           mp == clampMouse(ut.pos, s_width, s_height)
       IN  /\ timer' = ts.timer
           /\ sumDelta' = sumDelta + ts.delta
           /\ s_mousePos' = mp
           /\ io' = [io EXCEPT !.DisplaySize = <<s_width, s_height>>,
                               !.DisplayFramebufferScale = <<1, 1>>,
                               !.DeltaTime = ts.delta,
                               !.MouseDown0 = ut.down,
                               !.MousePos = mp]
    /\ clock' = clock + d
    /\ hid' = Sampled(touches)
    /\ lastOp' = "newFrame"
    /\ queried' = FALSE
    /\ UNCHANGED <<opMode, phase, hooked, s_width, s_height, style, atlas, ret, pl>>

newFrame(touches, d) == frame(touches, d) /\ UNCHANGED ref

\* The same call, remembered: its inputs, the state it started from and what
\* it wrote are kept in `ref` for comparison with later calls.
newFrameObserved(touches) ==
    /\ ~ref.set
    /\ frame(touches, 0)
    /\ ref' = [set |-> TRUE, mode |-> opMode, touches |-> Sampled(touches),
               w |-> s_width, h |-> s_height,
               oldPos |-> s_mousePos, oldDown |-> io.MouseDown0,
               size |-> io'.DisplaySize, pos |-> io'.MousePos,
               down |-> io'.MouseDown0]

\* void imgui::nx::exit()
exit ==
    /\ phase = "running"
    /\ hooked' = appletUnhook(hooked)
    /\ phase' = "exited"
    /\ lastOp' = "exit"
    /\ queried' = FALSE
    /\ UNCHANGED <<opMode, clock, s_width, s_height, s_mousePos, timer, style, io,
                   atlas, ret, pl, hid, sumDelta, ref>>

-----------------------------------------------------------------------------
(* The platform *)

\* The applet service delivers a notification of `type`: handleAppletHook runs
\* if the cookie is registered, otherwise nothing of this file runs.
Notify(type) ==
    /\ LET d == IF hooked
                THEN handleAppletHook(type, opMode,
                         Display(s_width, s_height, style, io.FontGlobalScale, FALSE))
                ELSE Display(s_width, s_height, style, io.FontGlobalScale, FALSE)
       IN  /\ WithinCap(d.style.scale)
           /\ s_width' = d.w
           /\ s_height' = d.h
           /\ style' = d.style
           /\ io' = [io EXCEPT !.FontGlobalScale = d.font]
           /\ queried' = d.queried
    /\ lastOp' = IF hooked
                 THEN IF type = "OnOperationMode" THEN "hookMode" ELSE "hookOther"
                 ELSE IF type = "OnOperationMode" THEN "dropMode" ELSE "dropOther"
    /\ UNCHANGED <<opMode, clock, phase, hooked, s_mousePos, timer, atlas, ret, pl,
                   hid, sumDelta, ref>>

\* The console is docked or undocked.
OperationModeChange ==
    /\ opMode' = IF opMode = "Handheld" THEN "Docked" ELSE "Handheld"
    /\ lastOp' = "env"
    /\ queried' = FALSE
    /\ UNCHANGED <<clock, phase, hooked, s_width, s_height, s_mousePos, timer, style,
                   io, atlas, ret, pl, hid, sumDelta, ref>>

\* The steady clock advances.
Tick ==
    /\ clock < MaxClock
    /\ clock' = clock + 1
    /\ lastOp' = "env"
    /\ queried' = FALSE
    /\ UNCHANGED <<opMode, phase, hooked, s_width, s_height, s_mousePos, timer, style,
                   io, atlas, ret, pl, hid, sumDelta, ref>>

Next ==
    \/ \E stdOk, extOk \in BOOLEAN : init(stdOk, extOk)
    \/ \E touches \in TouchStates : newFrame(touches, 0)
    \/ exit
    \/ \E type \in HookTypes : Notify(type)
    \/ OperationModeChange

\* Every entry point and every notification, with the clock standing still.
Spec == Init /\ [][Next]_vars

NextTime ==
    \/ init(TRUE, TRUE)
    \/ \E d \in 0..1 : newFrame(<<>>, d)
    \/ exit
    \/ Tick

\* The entry points against an advancing clock, with no touch input.
SpecTime == Init /\ [][NextTime]_vars

PairTouches == {t \in TouchStates : Len(t) <= 1}

NextPair ==
    \/ init(TRUE, TRUE)
    \/ \E touches \in PairTouches : newFrame(touches, 0)
    \/ \E touches \in PairTouches : newFrameObserved(touches)
    \/ exit
    \/ Notify("OnOperationMode")
    \/ OperationModeChange

\* The entry points with one newFrame() call remembered for comparison.
SpecPair == Init /\ [][NextPair]_vars

-----------------------------------------------------------------------------
(* What the properties below compare the program against *)

Min(a, b) == IF a < b THEN a ELSE b
Max(a, b) == IF a < b THEN b ELSE a
Bounded(p, w, h) == <<Max(0, Min(p[1], w)), Max(0, Min(p[2], h))>>
Inside(p, w, h) == 0 <= p[1] /\ p[1] <= w /\ 0 <= p[2] /\ p[2] <= h

\* The cached size and the font scale are those of the console's mode.
ModeMatches ==
    /\ opMode = "Handheld" =>
           s_width = 1280 /\ s_height = 720 /\ io.FontGlobalScale = <<9, 10>>
    /\ opMode = "Docked" =>
           s_width = 1920 /\ s_height = 1080 /\ io.FontGlobalScale = <<8, 5>>

-----------------------------------------------------------------------------
\* C1: after init() and after every operation-mode notification the hook
\* receives, the cached display size and io.FontGlobalScale are those of the
\* current operation mode (1280x720 and 0.9 handheld, 1920x1080 and 1.6
\* docked); every newFrame() writes the cached size to io.DisplaySize and
\* (1,1) to io.DisplayFramebufferScale.
C1_DisplayFollowsMode ==
    /\ lastOp \in {"init", "hookMode"} => ModeMatches
    /\ lastOp = "newFrame" =>
           /\ io.DisplaySize = <<s_width, s_height>>
           /\ io.DisplayFramebufferScale = <<1, 1>>

\* The console was docked after a handheld frame and the hook has resized.
C1_Witness ==
    /\ lastOp = "hookMode"
    /\ opMode = "Docked"
    /\ s_width = 1920
    /\ io.DisplaySize = <<1280, 720>>

\* C2: after init() and any sequence of operation-mode notifications, the
\* product of the factors given to ScaleAllSizes is 1.9 in handheld mode and
\* 2.6 in docked mode.
C2_StyleScaleFollowsMode ==
    lastOp \in {"init", "hookMode"} =>
        style.scale = IF opMode = "Handheld" THEN <<19, 10>> ELSE <<13, 5>>

\* C3 as stated: in every reachable state the cached pointer position lies
\* within the cached display size.
C3_AlwaysClamped == Inside(s_mousePos, s_width, s_height)

\* C3 as amended: the cached pointer position lies within the cached display
\* size after every newFrame(), and stays within it across every step that
\* does not shrink the cached display size.
C3_ClampedAtFrame ==
    /\ [](lastOp = "newFrame" => Inside(s_mousePos, s_width, s_height))
    /\ [][(/\ Inside(s_mousePos, s_width, s_height)
           /\ s_width' >= s_width
           /\ s_height' >= s_height) => Inside(s_mousePos', s_width', s_height')]_vars

\* A frame clamped a touch that lay outside the 720p display.
C3_Witness ==
    /\ lastOp = "newFrame"
    /\ hid.count >= 1
    /\ hid.first = <<1500, 900>>
    /\ s_mousePos = <<1280, 720>>

\* C4: the hook is registered exactly between init() and exit(), and while it
\* is not registered no step (a mode change and its notification included)
\* changes the cached display size, the style scale or the font scale.
C4_HookLifetime ==
    /\ [](hooked <=> phase = "running")
    /\ [][(~hooked /\ ~hooked') =>
              UNCHANGED <<s_width, s_height, style, io.FontGlobalScale>>]_vars

\* After exit() the console went handheld and the notification found no hook:
\* the docked size is still cached.
C4_Witness ==
    /\ lastOp = "dropMode"
    /\ phase = "exited"
    /\ opMode = "Handheld"
    /\ s_width = 1920

\* C5: whatever the two shared-font lookups return, init() returns true, sets
\* size, style scale and font scale for the mode, registers the hook and sets
\* the I/O flags; the atlas gets both fonts if both lookups succeed and none
\* otherwise.
C5_FontFailureTolerated ==
    lastOp = "init" =>
        /\ ret = "true"
        /\ hooked
        /\ ModeMatches
        /\ style = [WindowRounding |-> 0,
                    scale |-> IF opMode = "Handheld" THEN <<19, 10>> ELSE <<13, 5>>]
        /\ io.IniFilename = "nullptr"
        /\ io.IsTouchScreen
        /\ ~io.MouseDrawCursor
        /\ atlas.fonts = IF pl.standard /\ pl.extended
                         THEN <<"standard", "extended">> ELSE <<>>

\* The standard font was found, the extended one was not.
C5_Witness ==
    /\ lastOp = "init"
    /\ pl.standard
    /\ ~pl.extended
    /\ atlas.fonts = <<>>
    /\ hooked

\* What a newFrame() call samples: operation mode, touch count, first touch.
SameInputs ==
    /\ ref.mode = opMode
    /\ ref.touches.count = hid.count
    /\ hid.count >= 1 => ref.touches.first = hid.first

SameOutputs ==
    /\ ref.size = io.DisplaySize
    /\ ref.pos = io.MousePos
    /\ ref.down = io.MouseDown0

\* C6 as stated: two newFrame() calls that sample the same operation mode,
\* touch count and first touch position write the same display size, pointer
\* position and button state.
C6_Stateless ==
    (ref.set /\ lastOp = "newFrame" /\ SameInputs) => SameOutputs

\* C6 as amended: two newFrame() calls that sample the same touch count and
\* first touch position and start from the same cached display size, cached
\* pointer position and io.MouseDown[0] write the same display size, pointer
\* position and button state.
C6_DeterminedByInputsAndCache ==
    [][(/\ ref.set
        /\ lastOp' = "newFrame"
        /\ ref' = ref
        /\ ref.touches.count = hid'.count
        /\ hid'.count >= 1 => ref.touches.first = hid'.first
        /\ ref.w = s_width
        /\ ref.h = s_height
        /\ ref.oldPos = s_mousePos
        /\ ref.oldDown = io.MouseDown0)
       => (/\ ref.size = io'.DisplaySize
           /\ ref.pos = io'.MousePos
           /\ ref.down = io'.MouseDown0)]_vars

\* After the remembered call the console changed mode, and a later call
\* repeated the remembered touch from the same cache.
C6_Witness ==
    /\ ref.set
    /\ lastOp = "newFrame"
    /\ ref.mode # opMode
    /\ hid.count = 1
    /\ ref.touches = hid
    /\ ref.w = s_width
    /\ ref.oldPos = ref.pos
    /\ ref.oldDown
    /\ ref.pos = io.MousePos

\* C7: newFrame() writes to io.MousePos the position of touch 0 when there is
\* a touch and the previously cached position when there is none, clamped to
\* the cached display size; the position lies within the io.DisplaySize the
\* same call wrote.
C7_PointerForwarding ==
    [][lastOp' = "newFrame" =>
          /\ io'.MousePos =
                 Bounded(IF hid'.count >= 1 THEN hid'.first ELSE s_mousePos,
                         s_width', s_height')
          /\ Inside(io'.MousePos, io'.DisplaySize[1], io'.DisplaySize[2])]_vars

\* Two touches: the first one, outside 720p, is forwarded clamped.
C7_Witness ==
    /\ lastOp = "newFrame"
    /\ hid.count = 2
    /\ hid.first = <<1500, 900>>
    /\ io.MousePos = <<1280, 720>>
    /\ io.DisplaySize = <<1280, 720>>

\* C8: io.DeltaTime is the clock time since the previous newFrame() (since the
\* reading taken inside the call itself for the first one), is never
\* negative, and the deltas sum to the time between the first and the latest
\* call.
C8_FrameTiming ==
    /\ [](io.DeltaTime >= 0)
    /\ [](timer.init => sumDelta = timer.prev - timer.start)
    /\ [][lastOp' = "newFrame" =>
             /\ timer'.prev = clock'
             /\ ~timer.init => (clock <= timer'.start /\ timer'.start <= clock')
             /\ io'.DeltaTime =
                    clock' - (IF timer.init THEN timer.prev ELSE timer'.start)]_vars

\* Time passed before the first frame, inside it and before the second one.
C8_Witness ==
    /\ lastOp = "newFrame"
    /\ timer.start = 1
    /\ timer.prev = 3
    /\ io.DeltaTime = 1
    /\ sumDelta = 2

\* C9: newFrame() sets io.MouseDown[0] when there is a touch and leaves it
\* alone when there is none, and no step ever clears it.
C9_ButtonLatches ==
    [][/\ (lastOp' = "newFrame" /\ hid'.count >= 1) => io'.MouseDown0
       /\ (lastOp' = "newFrame" /\ hid'.count = 0) => io'.MouseDown0 = io.MouseDown0
       /\ io.MouseDown0 => io'.MouseDown0]_vars

\* A frame without a touch, after an earlier touch: the button is still down.
C9_Witness ==
    /\ lastOp = "newFrame"
    /\ hid.count = 0
    /\ io.MouseDown0
    /\ phase = "exited"

\* C10: a notification of another type changes nothing and does not query the
\* operation mode; an operation-mode notification changes nothing but the
\* cached display size, the style scale and the font scale.
C10_HookFrame ==
    [][/\ lastOp' = "hookOther" =>
              /\ UNCHANGED <<s_width, s_height, style, io, s_mousePos, atlas,
                             timer, hooked>>
              /\ ~queried'
       /\ lastOp' = "hookMode" =>
              /\ UNCHANGED <<s_mousePos, atlas, timer, hooked, style.WindowRounding>>
              /\ io' = [io EXCEPT !.FontGlobalScale = io'.FontGlobalScale]
              /\ queried']_vars

\* A notification of another type arrived while the console was docked but
\* the handheld size was still cached.
C10_Witness ==
    /\ lastOp = "hookOther"
    /\ opMode = "Docked"
    /\ s_width = 1280
    /\ io.MouseDown0

=============================================================================
